---- MODULE Spec2Model ----
(***************************************************************************)
(* The api-gateway: bearer/IP guard, the chat-completion pipeline and the  *)
(* session-delete endpoint over the SQLite conversation store.             *)
(* Every await of a handler is one step; the steps of concurrent requests  *)
(* interleave.  Each process handles one HTTP request.                     *)
(***************************************************************************)
EXTENDS Integers, Sequences, FiniteSets, TLC

\* ------------------------------------------------------------------ bounds
NumProcs == 2
Procs == 1..NumProcs

\* ------------------------------------------------------- program constants
API_KEY == "default_key"
DEFAULT_MODEL == "qwen2.5-7b"
DEFAULT_USER_ID == "uuid-default"
DEFAULT_REQUEST_USER_ID == "default"
NoSession == 0
NoUsername == "NULL"
\* SessionCreate.title = None
NoTitle == ""
\* SessionCreate declares model_name, the create handler reads session_data.model
SessionCreateHasModel == FALSE
\* SessionResponse requires model_name, the handlers pass model=
SessionResponseHasModelName == FALSE
\* a users table whose username column accepts NULL
UsernameNullable_accepting == TRUE
\* users.username is declared nullable=False
UsernameNullable == FALSE
ForeignKeysEnforced == FALSE

\* ------------------------------------------------------------ input sets
Tokens == {API_KEY, "wrong_key"}
\* caller addresses: one on the deployment's allow-list, one not
ClientIps == {"10.0.0.1", "10.0.0.2"}
UserIds == {DEFAULT_USER_ID, DEFAULT_REQUEST_USER_ID}
UnknownSessionId == NoSession - 1
ChatMessageLists ==
  { <<>>,
    <<[role |-> "user", content |-> "hi"]>>,
    <<[role |-> "system", content |-> "sys"], [role |-> "user", content |-> "hi"]>>,
    <<[role |-> "user", content |-> "hi"], [role |-> "system", content |-> "sys"]>> }
BackendResponses ==
  { [status |-> 200, choices |-> <<"hello">>, completion_tokens |-> 1],
    [status |-> 200, choices |-> <<>>, completion_tokens |-> 0],
    [status |-> 500, choices |-> <<>>, completion_tokens |-> 0],
    [status |-> 503, choices |-> <<>>, completion_tokens |-> 0] }
CommitOutcomes == {"ok", "OperationalError"}
\* SessionCreate.title
Titles == {NoTitle, "t1"}
\* the endpoints under /v1/sessions
SessionKinds == {"create", "list", "get", "messages", "delete"}

\* the address strings the ipaddress module parses, with their octets
ParsedAddresses ==
  ("10.0.0.1" :> <<10, 0, 0, 1>>) @@ ("10.0.0.2" :> <<10, 0, 0, 2>>) @@
  ("10.0.0.9" :> <<10, 0, 0, 9>>) @@ ("10.0.1.7" :> <<10, 0, 1, 7>>) @@
  ("10.0.0.0" :> <<10, 0, 0, 0>>) @@ ("127.0.0.1" :> <<127, 0, 0, 1>>)
\* caller addresses of the guard specification (request.client.host)
GuardIps == {"10.0.0.1", "10.0.0.2", "10.0.0.9", "10.0.1.7", "127.0.0.1"}
\* one ALLOWED_IPS entry "addr" (slash = FALSE) or "addr/prefix" (slash = TRUE)
IpEntry(addr) == [slash |-> FALSE, addr |-> addr, prefix |-> 0]
CidrEntry(addr, prefix) == [slash |-> TRUE, addr |-> addr, prefix |-> prefix]
\* ALLOWED_IPS configurations of the guard specification
AllowLists ==
  { <<>>,
    <<IpEntry("10.0.0.1")>>,
    <<IpEntry("10.0.0.9"), IpEntry("127.0.0.1")>>,
    <<CidrEntry("10.0.0.0", 30)>>,
    <<CidrEntry("10.0.0.9", 24)>>,
    <<CidrEntry("10.0.0.0", 16)>>,
    <<CidrEntry("10.0.0.0", 40)>>,
    <<CidrEntry("localhost", 8), IpEntry("10.0.1.7")>>,
    <<IpEntry("localhost"), CidrEntry("10.0.1.7", 32)>> }
TzOffsets == {0}
\* datetime.now() - datetime.utcnow() in units of the clock, for three hosts
LocalOffsets == {0 - 5, 0, 5}

VARIABLES
  users, sessions, messages, request_logs,
  next_session_id, next_message_id, clock, tz, allowed_ips,
  disclosed, pc, req, user, session, obj, loaded, response_data, touched, now, resp, audit

store == <<users, sessions, messages, request_logs, next_session_id, next_message_id, clock>>
config == <<tz, allowed_ips>>
\* what a client can present as session_id: nothing, an identifier that names no
\* session, or an identifier some earlier response returned (uuid4 is not guessable)
SessionIdInputs == {NoSession, UnknownSessionId} \cup disclosed
locals == <<req, user, session, obj, loaded, response_data, touched, now>>
vars == <<users, sessions, messages, request_logs, next_session_id, next_message_id,
          clock, tz, allowed_ips, disclosed, pc, req, user, session, obj, loaded, response_data, touched, now, resp, audit>>

\* --------------------------------------------------------------- helpers
NoRequest == [kind |-> "none", token |-> "", ip |-> "", user_id |-> "", session_id |-> NoSession,
              model |-> "", messages |-> <<>>, title |-> NoTitle]
NoObject == 0
NoResponse == [status |-> 0, detail |-> <<>>, body |-> <<>>, session_id |-> NoSession, user_id |-> ""]
NoBackend == [status |-> 0, choices |-> <<>>, completion_tokens |-> 0]

RECURSIVE SelectSeq2(_, _)
\* the messages of one session, in insertion (creation) order
SelectSeq2(s, sid) ==
  IF s = <<>> THEN <<>>
  ELSE IF Head(s).session_id = sid THEN <<Head(s)>> \o SelectSeq2(Tail(s), sid)
       ELSE SelectSeq2(Tail(s), sid)

SeqRange(s) == {s[i] : i \in 1..Len(s)}

\* a guard that accepts every credential
verify_api_key_any(token) == token = token

\* SimpleAuth.verify_api_key
verify_api_key(token) == token = API_KEY

\* ipaddress.ip_network(entry) with strict=True: host bits set raise ValueError
network_valid_strict(e) ==
  /\ e.addr \in DOMAIN ParsedAddresses
  /\ e.prefix \in 0..32
  /\ LET b == ParsedAddresses[e.addr]
         full == e.prefix \div 8
         r == e.prefix % 8
     IN /\ \A i \in 1..4 : i > full + 1 => b[i] = 0
        /\ full < 4 => b[full + 1] % (2 ^ (8 - r)) = 0

\* ipaddress.ip_network(entry, strict=False) does not raise
network_valid(e) ==
  /\ e.addr \in DOMAIN ParsedAddresses
  /\ e.prefix \in 0..32

\* ipaddress.ip_address(ip) in ipaddress.ip_network(entry, strict=False):
\* the leading prefix bits of both addresses agree
in_network(ip, e) ==
  LET a == ParsedAddresses[ip]
      b == ParsedAddresses[e.addr]
      full == e.prefix \div 8
      r == e.prefix % 8
  IN /\ \A i \in 1..full : a[i] = b[i]
     /\ r # 0 => (a[full + 1] \div (2 ^ (8 - r))) = (b[full + 1] \div (2 ^ (8 - r)))

\* SimpleAuth.check_ip_allowed: an entry with '/' is a network (a malformed one is
\* skipped by the bare except), any other entry is compared as a string
check_ip_allowed(ip) ==
  \/ allowed_ips = <<>>
  \/ \E i \in 1..Len(allowed_ips) :
       IF allowed_ips[i].slash
       THEN network_valid(allowed_ips[i]) /\ in_network(ip, allowed_ips[i])
       ELSE ip = allowed_ips[i].addr

\* NOT NULL / PRIMARY KEY / UNIQUE constraints of the users table
users_insert_ok(row) ==
  /\ (UsernameNullable \/ row.username # NoUsername)
  /\ \A u \in users : u.id # row.id
  /\ \A u \in users : (row.username # NoUsername => u.username # row.username)

\* select(User).where(User.id == user_id)
select_user(user_id) == {u \in users : u.id = user_id}

\* get_session_by_id with the owner condition of the query dropped
get_session_by_id_any_owner(session_id, user_id) ==
  LET m == {s \in sessions : s.id = session_id}
  IN IF m = {} THEN NoSession ELSE (CHOOSE s \in m : TRUE).id

\* get_session_by_id: the id of the session owned by user_id, or NoSession
get_session_by_id(session_id, user_id) ==
  LET m == {s \in sessions : s.id = session_id /\ s.user_id = user_id}
  IN IF m = {} THEN NoSession ELSE (CHOOSE s \in m : TRUE).id

\* select(Session).where(Session.id == session_id) of update_session_timestamp
select_session(session_id) == {s \in sessions : s.id = session_id}

\* the foreign key messages.session_id -> sessions.id, when the engine enforces it
message_fk_ok(session_id) ==
  ForeignKeysEnforced => (\E s \in sessions : s.id = session_id)

\* the structured audit fact of SimpleAuth.log_request, per request
log_request(p, status) == audit' = [audit EXCEPT ![p] = Append(@, status)]

\* HTTPException leaving the handler
Respond(p, status, detail) ==
  /\ resp' = [resp EXCEPT ![p] = [NoResponse EXCEPT !.status = status, !.detail = detail]]
  /\ pc' = [pc EXCEPT ![p] = "done"]

\* the detail prefix of the session handlers' 'except Exception' clauses
ErrorDetail ==
  [k \in SessionKinds |->
     CASE k = "create" -> "Failed to create session"
       [] k = "list" -> "Failed to list sessions"
       [] k = "get" -> "Failed to get session"
       [] k = "messages" -> "Failed to get messages"
       [] k = "delete" -> "Failed to delete session"]

\* an exception other than HTTPException raised inside the handler's try block
Raise(p, e) ==
  IF req[p].kind = "chat"
  THEN /\ log_request(p, "ERROR")
       /\ Respond(p, 500, <<"Internal error", e>>)
  ELSE /\ UNCHANGED audit
       /\ Respond(p, 500, <<ErrorDetail[req[p].kind], e>>)

Goto(p, label) == pc' = [pc EXCEPT ![p] = label]

\* ------------------------------------------------------------------ Init
\* the store right after init_database() on a new database file
FreshStore ==
  /\ sessions = {}
  /\ messages = <<>>
  /\ request_logs = <<>>
  /\ next_session_id = 1
  /\ next_message_id = 1
  /\ clock = 1
  /\ disclosed = {}

\* the store after one earlier chat-completion call (call 0) of the default user that
\* created session 1, stored "hi" and the reply "hello", and returned the session id
UsedStore ==
  /\ sessions = {[id |-> 1, user_id |-> DEFAULT_USER_ID, title |-> "generated",
                  model_name |-> DEFAULT_MODEL, created_at |-> 1, updated_at |-> 2 + tz]}
  /\ messages = << [id |-> 1, session_id |-> 1, role |-> "user", content |-> "hi",
                    token_count |-> 0, call |-> 0],
                   [id |-> 2, session_id |-> 1, role |-> "assistant", content |-> "hello",
                    token_count |-> 1, call |-> 0] >>
  /\ request_logs = << [user_id |-> DEFAULT_USER_ID, session_id |-> 1,
                        endpoint |-> "/v1/chat/completions", method |-> "POST",
                        ip_address |-> "10.0.0.1",
                        request_data |-> <<[role |-> "user", content |-> "hi"]>>,
                        response_status |-> 200, call |-> 0] >>
  /\ next_session_id = 2
  /\ next_message_id = 3
  /\ clock = 3
  /\ disclosed = {1}

\* the state after start-up, the local clock offset drawn from offsets
InitAt(offsets) ==
  /\ users = {[id |-> DEFAULT_USER_ID, username |-> "default"]}
  /\ tz \in offsets
  /\ (FreshStore \/ UsedStore)
  /\ allowed_ips = <<IpEntry("10.0.0.1")>>
  /\ pc = [p \in Procs |-> "idle"]
  /\ req = [p \in Procs |-> NoRequest]
  /\ user = [p \in Procs |-> ""]
  /\ session = [p \in Procs |-> NoSession]
  /\ obj = [p \in Procs |-> NoObject]
  /\ loaded = [p \in Procs |-> {}]
  /\ response_data = [p \in Procs |-> NoBackend]
  /\ touched = [p \in Procs |-> FALSE]
  /\ now = [p \in Procs |-> 0]
  /\ resp = [p \in Procs |-> NoResponse]
  /\ audit = [p \in Procs |-> <<>>]

Init == InitAt(TzOffsets)

\* --------------------------------------------------------------- actions
\* a request arrives and passes through the verify_token dependency; the body
\* reaches the handler only when the dependency returns
Arrive(p, kinds, ips) ==
  /\ pc[p] = "idle"
  /\ \E kind \in kinds, token \in Tokens, ip \in ips :
       LET r == [NoRequest EXCEPT !.kind = kind, !.token = token, !.ip = ip] IN
       IF ~check_ip_allowed(ip)
       THEN /\ req' = [req EXCEPT ![p] = r]
            /\ log_request(p, "IP_BLOCKED")
            /\ Respond(p, 403, <<"IP not allowed">>)
       ELSE IF ~verify_api_key(token)
       THEN /\ req' = [req EXCEPT ![p] = r]
            /\ log_request(p, "AUTH_FAILED")
            /\ Respond(p, 401, <<"Invalid API key">>)
       ELSE /\ \E uid \in UserIds, sid \in SessionIdInputs, msgs \in ChatMessageLists,
                    title \in Titles :
                 /\ (kind # "chat" => msgs = <<>>)
                 /\ (kind \in {"delete", "get", "messages"} => sid # NoSession)
                 /\ (kind \in {"create", "list"} => sid = NoSession)
                 /\ (kind # "create" => title = NoTitle)
                 /\ req' = [req EXCEPT ![p] = [r EXCEPT !.user_id = uid, !.session_id = sid,
                                                         !.model = DEFAULT_MODEL, !.messages = msgs,
                                                         !.title = title]]
            /\ UNCHANGED <<audit, resp>>
            /\ Goto(p, "get_user")
  /\ UNCHANGED <<store, config, disclosed, user, session, obj, loaded, response_data, touched, now>>

\* the requests of the chat-completion and session-delete endpoints
verify_token(p) == Arrive(p, {"chat", "delete"}, ClientIps)

\* requests from any of the caller addresses, under any allow-list configuration
verify_token_guard(p) == Arrive(p, {"chat", "delete"}, GuardIps)

\* requests of the five session endpoints
verify_token_sessions(p) == Arrive(p, SessionKinds, ClientIps)

\* where the handler continues once get_or_create_user has returned
AfterUser(p) ==
  CASE req[p].kind = "chat" ->
         IF req[p].session_id = NoSession THEN "create_session" ELSE "get_session"
    [] req[p].kind = "create" -> "create_args"
    [] req[p].kind = "list" -> "list_query"
    [] OTHER -> "get_session"

\* get_or_create_user: the select
get_or_create_user_select(p) ==
  /\ pc[p] = "get_user"
  /\ IF select_user(req[p].user_id) # {}
     THEN /\ user' = [user EXCEPT ![p] = req[p].user_id]
          /\ Goto(p, AfterUser(p))
     ELSE /\ UNCHANGED user
          /\ Goto(p, "insert_user")
  /\ UNCHANGED <<store, config, disclosed, req, session, obj, loaded, response_data, touched, now, resp, audit>>

\* get_or_create_user: db.add(User(id=user_id)); commit; refresh
get_or_create_user_insert(p) ==
  /\ pc[p] = "insert_user"
  /\ LET row == [id |-> req[p].user_id, username |-> NoUsername]
     IN IF users_insert_ok(row)
        THEN /\ users' = users \cup {row}
             /\ user' = [user EXCEPT ![p] = row.id]
             /\ Goto(p, AfterUser(p))
             /\ UNCHANGED <<resp, audit>>
        ELSE /\ Raise(p, "IntegrityError")
             /\ UNCHANGED <<users, user>>
  /\ UNCHANGED <<sessions, messages, request_logs, next_session_id, next_message_id, clock,
                 config, disclosed, req, session, obj, loaded, response_data, touched, now>>

\* where a session handler continues once get_session_by_id has found the session
AfterSession(p) ==
  CASE req[p].kind = "get" -> "count_messages"
    [] req[p].kind = "messages" -> "query_messages"
    [] OTHER -> "delete_load"

\* session = await get_session_by_id(db, session_id, user.id), in the handlers
get_session(p) ==
  /\ pc[p] = "get_session"
  /\ LET sid == get_session_by_id(req[p].session_id, user[p]) IN
     /\ session' = [session EXCEPT ![p] = sid]
     /\ IF req[p].kind = "chat"
        THEN /\ Goto(p, IF sid = NoSession THEN "create_session" ELSE "store_user")
             /\ UNCHANGED resp
        ELSE IF sid = NoSession
             THEN Respond(p, 404, <<"Session not found">>)
             ELSE /\ Goto(p, AfterSession(p))
                  /\ UNCHANGED resp
  /\ UNCHANGED <<store, config, disclosed, req, user, obj, loaded, response_data, touched, now, audit>>

\* the fields a session handler passes to SessionResponse
SessionView(sid) ==
  [id |-> sid, message_count |-> Len(SelectSeq2(messages, sid))]

\* return SessionResponse(id=..., model=session.model_name, ...) for each listed
\* session: the constructor raises ValidationError for the missing model_name
ReturnSessions(p, views) ==
  IF views = <<>> \/ SessionResponseHasModelName
  THEN /\ resp' = [resp EXCEPT ![p] = [NoResponse EXCEPT !.status = 200, !.body = views]]
       /\ Goto(p, "done")
       /\ UNCHANGED audit
  ELSE Raise(p, "ValidationError")

\* create_session: the arguments of create_new_session(db, user.id,
\* session_data.model, session_data.title) are evaluated
create_session_args(p) ==
  /\ pc[p] = "create_args"
  /\ IF SessionCreateHasModel
     THEN /\ Goto(p, "create_session")
          /\ UNCHANGED <<resp, audit>>
     ELSE Raise(p, "AttributeError")
  /\ UNCHANGED <<store, config, disclosed, locals>>

\* list_sessions: the join query over the user's sessions, newest first
list_sessions_query(p) ==
  /\ pc[p] = "list_query"
  /\ LET own == {s \in sessions : s.user_id = user[p]} IN
     \E order \in [1..Cardinality(own) -> own] :
       /\ \A i, j \in 1..Cardinality(own) :
            i < j => (order[i] # order[j] /\ order[i].updated_at >= order[j].updated_at)
       /\ ReturnSessions(p, [i \in 1..Cardinality(own) |-> SessionView(order[i].id)])
  /\ UNCHANGED <<store, config, disclosed, locals>>

\* get_session: select count(Message.id), then the SessionResponse
get_session_count(p) ==
  /\ pc[p] = "count_messages"
  /\ ReturnSessions(p, <<SessionView(session[p])>>)
  /\ UNCHANGED <<store, config, disclosed, locals>>

\* get_session_messages: select the session's messages, return them as MessageResponse
get_session_messages(p) ==
  /\ pc[p] = "query_messages"
  /\ LET found == SelectSeq2(messages, session[p]) IN
       resp' = [resp EXCEPT ![p] = [NoResponse EXCEPT !.status = 200,
                  !.body = [i \in 1..Len(found) |->
                              [id |-> found[i].id, role |-> found[i].role,
                               content |-> found[i].content,
                               token_count |-> found[i].token_count]]]]
  /\ Goto(p, "done")
  /\ UNCHANGED <<store, config, disclosed, locals, audit>>

\* create_new_session: db.add(Session(id=uuid4, ...)); commit
create_new_session(p) ==
  /\ pc[p] = "create_session"
  /\ \E outcome \in CommitOutcomes :
       IF outcome = "ok"
       THEN /\ sessions' = sessions \cup
                 {[id |-> next_session_id, user_id |-> user[p],
                   title |-> IF req[p].title # NoTitle THEN req[p].title ELSE "generated",
                   model_name |-> req[p].model, created_at |-> clock, updated_at |-> clock]}
            /\ next_session_id' = next_session_id + 1
            /\ clock' = clock + 1
            /\ session' = [session EXCEPT ![p] = next_session_id]
            /\ Goto(p, "refresh_session")
            /\ UNCHANGED <<resp, audit>>
       ELSE /\ Raise(p, outcome)
            /\ UNCHANGED <<sessions, next_session_id, clock, session>>
  /\ UNCHANGED <<users, messages, request_logs, next_message_id, config, disclosed,
                 req, user, obj, loaded, response_data, touched, now>>

\* create_new_session: await db.refresh(session)
refresh_session(p) ==
  /\ pc[p] = "refresh_session"
  /\ IF select_session(session[p]) = {}
     THEN Raise(p, "InvalidRequestError")
     ELSE IF req[p].kind = "chat"
     THEN /\ Goto(p, "store_user")
          /\ UNCHANGED <<resp, audit>>
     ELSE ReturnSessions(p, <<SessionView(session[p])>>)
  /\ UNCHANGED <<store, config, disclosed, locals>>

\* a store_message that keeps one row per session and role for concurrent calls:
\* the later write replaces the row another call wrote
store_message_last_writer(p, role, content, token_count, outcome, next) ==
  IF outcome = "ok" /\ message_fk_ok(session[p])
  THEN /\ messages' = Append(SelectSeq(messages, LAMBDA m :
                                 ~(m.session_id = session[p] /\ m.role = role
                                   /\ m.call \notin {0, p})),
                             [id |-> next_message_id, session_id |-> session[p],
                              role |-> role, content |-> content,
                              token_count |-> token_count, call |-> p])
       /\ next_message_id' = next_message_id + 1
       /\ obj' = [obj EXCEPT ![p] = next_message_id]
       /\ Goto(p, next)
       /\ UNCHANGED <<resp, audit>>
  ELSE /\ Raise(p, IF outcome = "ok" THEN "IntegrityError" ELSE outcome)
       /\ UNCHANGED <<messages, next_message_id, obj>>

\* store_message: db.add(Message(id=uuid4, ...)); commit
store_message(p, role, content, token_count, outcome, next) ==
  IF outcome = "ok" /\ message_fk_ok(session[p])
  THEN /\ messages' = Append(messages, [id |-> next_message_id, session_id |-> session[p],
                                        role |-> role, content |-> content,
                                        token_count |-> token_count, call |-> p])
       /\ next_message_id' = next_message_id + 1
       /\ obj' = [obj EXCEPT ![p] = next_message_id]
       /\ Goto(p, next)
       /\ UNCHANGED <<resp, audit>>
  ELSE /\ Raise(p, IF outcome = "ok" THEN "IntegrityError" ELSE outcome)
       /\ UNCHANGED <<messages, next_message_id, obj>>

\* store_message: await db.refresh(message)
refresh_message(p, next) ==
  IF \E i \in 1..Len(messages) : messages[i].id = obj[p]
  THEN /\ Goto(p, next)
       /\ UNCHANGED <<resp, audit>>
  ELSE Raise(p, "InvalidRequestError")

\* messages[0] taken instead of messages[-1]
LastMessage_first(p) == req[p].messages[1]

\* last_message = chat_request.messages[-1]
LastMessage(p) == req[p].messages[Len(req[p].messages)]

\* the role test made on the first entry of the message list
StoresUserMessage_first(p) == req[p].messages # <<>> /\ req[p].messages[1].role = "user"

\* if chat_request.messages: ... if last_message.role == "user"
StoresUserMessage(p) == req[p].messages # <<>> /\ LastMessage(p).role = "user"

\* chat_completions: store the caller's last message when it is user-authored
store_user_message(p) ==
  /\ pc[p] = "store_user"
  /\ IF StoresUserMessage(p)
     THEN \E outcome \in CommitOutcomes :
            store_message(p, "user", LastMessage(p).content, 0, outcome, "refresh_user")
     ELSE /\ log_request(p, "START")
          /\ Goto(p, "backend")
          /\ UNCHANGED <<messages, next_message_id, obj, resp>>
  /\ UNCHANGED <<users, sessions, request_logs, next_session_id, clock, config, disclosed,
                 req, user, session, loaded, response_data, touched, now>>

refresh_user_message(p) ==
  /\ pc[p] = "refresh_user"
  /\ IF \E i \in 1..Len(messages) : messages[i].id = obj[p]
     THEN /\ log_request(p, "START")
          /\ Goto(p, "backend")
          /\ UNCHANGED resp
     ELSE Raise(p, "InvalidRequestError")
  /\ UNCHANGED <<store, config, disclosed, locals>>

\* a pipeline that touches the session only when a reply was extracted
AfterBackend_touch_on_reply(r) ==
  IF r.status # 200 THEN "raise"
  ELSE IF Len(r.choices) > 0 THEN "store_reply" ELSE "log"

\* only status 500 treated as a backend failure
AfterBackend_only500(r) ==
  IF r.status = 500 THEN "raise"
  ELSE IF Len(r.choices) > 0 THEN "store_reply" ELSE "touch_select"

\* chat_completions: what follows the backend's answer r
AfterBackend(r) ==
  IF r.status # 200 THEN "raise"
  ELSE IF Len(r.choices) > 0 THEN "store_reply" ELSE "touch_select"

\* chat_completions: the POST to the inference backend
backend_call(p) ==
  /\ pc[p] = "backend"
  /\ \/ /\ Raise(p, "ConnectError")
        /\ UNCHANGED response_data
     \/ \E r \in BackendResponses :
          /\ response_data' = [response_data EXCEPT ![p] = r]
          /\ UNCHANGED audit
          /\ IF AfterBackend(r) = "raise"
             THEN Respond(p, r.status, <<"vLLM error">>)
             ELSE /\ Goto(p, AfterBackend(r))
                  /\ UNCHANGED resp
  /\ UNCHANGED <<store, config, disclosed, req, user, session, obj, loaded, touched, now>>

\* chat_completions: store the assistant reply
store_assistant_message(p) ==
  /\ pc[p] = "store_reply"
  /\ \E outcome \in CommitOutcomes :
       store_message(p, "assistant", response_data[p].choices[1],
                     response_data[p].completion_tokens, outcome, "refresh_reply")
  /\ UNCHANGED <<users, sessions, request_logs, next_session_id, clock, config, disclosed,
                 req, user, session, loaded, response_data, touched, now>>

refresh_assistant_message(p) ==
  /\ pc[p] = "refresh_reply"
  /\ refresh_message(p, "touch_select")
  /\ UNCHANGED <<store, config, disclosed, locals>>

\* a pipeline that goes from the reply straight to the request log
update_session_timestamp_skipped(p) ==
  /\ pc[p] = "touch_select"
  /\ Goto(p, "log")
  /\ UNCHANGED <<store, config, disclosed, locals, resp, audit>>

\* update_session_timestamp: the select, and session.updated_at = datetime.now()
\* on the row it returned (the local clock is read here, the row written at commit)
update_session_timestamp_select(p) ==
  /\ pc[p] = "touch_select"
  /\ IF select_session(session[p]) # {}
     THEN /\ now' = [now EXCEPT ![p] = clock + tz]
          /\ clock' = clock + 1
          /\ Goto(p, "touch_commit")
     ELSE /\ UNCHANGED <<now, clock>>
          /\ Goto(p, "log")
  /\ UNCHANGED <<users, sessions, messages, request_logs, next_session_id, next_message_id,
                 config, disclosed, req, user, session, obj, loaded, response_data, touched,
                 resp, audit>>

\* update_session_timestamp: await db.commit() writes the updated_at set before
update_session_timestamp_commit(p) ==
  /\ pc[p] = "touch_commit"
  /\ \E outcome \in CommitOutcomes :
       IF outcome = "ok" /\ select_session(session[p]) # {}
       THEN /\ sessions' = {IF s.id = session[p] THEN [s EXCEPT !.updated_at = now[p]] ELSE s
                            : s \in sessions}
            /\ touched' = [touched EXCEPT ![p] = TRUE]
            /\ Goto(p, "log")
            /\ UNCHANGED <<resp, audit>>
       ELSE /\ Raise(p, IF outcome = "ok" THEN "StaleDataError" ELSE outcome)
            /\ UNCHANGED <<sessions, touched>>
  /\ UNCHANGED <<users, messages, request_logs, next_session_id, next_message_id, clock, config,
                 disclosed, req, user, session, obj, loaded, response_data, now>>

\* log_request_to_db, then the response is built and returned
log_request_to_db(p) ==
  /\ pc[p] = "log"
  /\ \E outcome \in CommitOutcomes :
       IF outcome = "ok"
       THEN /\ request_logs' = Append(request_logs,
                 [user_id |-> user[p], session_id |-> session[p],
                  endpoint |-> "/v1/chat/completions", method |-> "POST",
                  ip_address |-> req[p].ip, request_data |-> req[p].messages,
                  response_status |-> 200, call |-> p])
            /\ resp' = [resp EXCEPT ![p] = [status |-> 200, detail |-> <<>>,
                                            body |-> response_data[p].choices,
                                            session_id |-> session[p], user_id |-> user[p]]]
            /\ disclosed' = disclosed \cup {session[p]}
            /\ log_request(p, "SUCCESS")
            /\ Goto(p, "done")
       ELSE /\ Raise(p, outcome)
            /\ UNCHANGED <<request_logs, disclosed>>
  /\ UNCHANGED <<users, sessions, messages, next_session_id, next_message_id, clock, config, locals>>

\* delete_session: await db.delete(session) loads the messages the cascade will delete
delete_session_load(p) ==
  /\ pc[p] = "delete_load"
  /\ loaded' = [loaded EXCEPT ![p] = {m.id : m \in SeqRange(SelectSeq2(messages, session[p]))}]
  /\ Goto(p, "delete_commit")
  /\ UNCHANGED <<store, config, disclosed, req, user, session, obj, response_data, touched, now,
                 resp, audit>>

\* a delete whose commit also removes the RequestLog rows that reference the session
delete_session_commit_purging(p) ==
  /\ pc[p] = "delete_commit"
  /\ \E outcome \in CommitOutcomes :
       IF outcome = "ok"
       THEN /\ messages' = SelectSeq(messages, LAMBDA m : m.id \notin loaded[p])
            /\ sessions' = {s \in sessions : s.id # session[p]}
            /\ request_logs' = SelectSeq(request_logs, LAMBDA r : r.session_id # session[p])
            /\ resp' = [resp EXCEPT ![p] = [NoResponse EXCEPT !.status = 200,
                                             !.detail = <<"Session deleted successfully">>]]
            /\ Goto(p, "done")
            /\ UNCHANGED audit
       ELSE /\ Raise(p, outcome)
            /\ UNCHANGED <<messages, sessions, request_logs>>
  /\ UNCHANGED <<users, next_session_id, next_message_id, clock, config,
                 disclosed, locals>>

\* delete_session: await db.commit() deletes the loaded messages, then the session row
delete_session_commit(p) ==
  /\ pc[p] = "delete_commit"
  /\ \E outcome \in CommitOutcomes :
       IF outcome = "ok"
       THEN /\ messages' = SelectSeq(messages, LAMBDA m : m.id \notin loaded[p])
            /\ sessions' = {s \in sessions : s.id # session[p]}
            /\ resp' = [resp EXCEPT ![p] = [NoResponse EXCEPT !.status = 200,
                                             !.detail = <<"Session deleted successfully">>]]
            /\ Goto(p, "done")
            /\ UNCHANGED audit
       ELSE /\ Raise(p, outcome)
            /\ UNCHANGED <<messages, sessions>>
  /\ UNCHANGED <<users, request_logs, next_session_id, next_message_id, clock, config,
                 disclosed, locals>>

Next ==
  \E p \in Procs :
    \/ verify_token(p)
    \/ get_or_create_user_select(p)
    \/ get_or_create_user_insert(p)
    \/ get_session(p)
    \/ create_new_session(p)
    \/ refresh_session(p)
    \/ store_user_message(p)
    \/ refresh_user_message(p)
    \/ backend_call(p)
    \/ store_assistant_message(p)
    \/ refresh_assistant_message(p)
    \/ update_session_timestamp_select(p)
    \/ update_session_timestamp_commit(p)
    \/ log_request_to_db(p)
    \/ delete_session_load(p)
    \/ delete_session_commit(p)

Spec == Init /\ [][Next]_vars

\* ----------------------------------------- the session-endpoint specification
\* concurrent requests of the five /v1/sessions endpoints
NextSessions ==
  \E p \in Procs :
    \/ verify_token_sessions(p)
    \/ get_or_create_user_select(p)
    \/ get_or_create_user_insert(p)
    \/ get_session(p)
    \/ create_session_args(p)
    \/ list_sessions_query(p)
    \/ get_session_count(p)
    \/ get_session_messages(p)
    \/ delete_session_load(p)
    \/ delete_session_commit(p)

SpecSessions == Init /\ [][NextSessions]_vars

\* ------------------------------------------------- the guard specification
\* the guard alone, over the ALLOWED_IPS configurations and caller addresses
InitGuard ==
  /\ users = {[id |-> DEFAULT_USER_ID, username |-> "default"]}
  /\ tz \in TzOffsets
  /\ FreshStore
  /\ allowed_ips \in AllowLists
  /\ pc = [p \in Procs |-> "idle"]
  /\ req = [p \in Procs |-> NoRequest]
  /\ user = [p \in Procs |-> ""]
  /\ session = [p \in Procs |-> NoSession]
  /\ obj = [p \in Procs |-> NoObject]
  /\ loaded = [p \in Procs |-> {}]
  /\ response_data = [p \in Procs |-> NoBackend]
  /\ touched = [p \in Procs |-> FALSE]
  /\ now = [p \in Procs |-> 0]
  /\ resp = [p \in Procs |-> NoResponse]
  /\ audit = [p \in Procs |-> <<>>]

NextGuard == \E p \in Procs : verify_token_guard(p)

SpecGuard == InitGuard /\ [][NextGuard]_vars

\* ------------------------------------------------- the clock specification
\* the chat and delete requests on hosts whose local time is behind, equal to or
\* ahead of UTC
InitClock == InitAt(LocalOffsets)

SpecClock == InitClock /\ [][Next]_vars

\* ================================================================= claims
\* the request of p passed verify_token and entered its handler
Admitted(p) == pc[p] # "idle" /\ check_ip_allowed(req[p].ip) /\ verify_api_key(req[p].token)
\* the handler's call of get_or_create_user has returned or raised
UserCallEnded(p) == Admitted(p) /\ pc[p] \notin {"get_user", "insert_user"}
\* the last entry of the request's message list is user-authored
LastIsUser(p) ==
  Len(req[p].messages) > 0 /\ req[p].messages[Len(req[p].messages)].role = "user"
\* the messages written by the call of p, in creation order
MessagesOf(p) == SelectSeq(messages, LAMBDA m : m.call = p)
\* the RequestLog rows written by the call of p
LogRowsOf(p) == {i \in 1..Len(request_logs) : request_logs[i].call = p}
\* a chat-completion of p that ended with the backend's reply
ChatSucceeded(p) ==
  /\ req[p].kind = "chat" /\ pc[p] = "done" /\ resp[p].status = 200
\* no session-delete request resolved the session of p
NoDeleteOf(p) == \A q \in Procs : ~(req[q].kind = "delete" /\ session[q] = session[p])

\* C1: once get_or_create_user(u) has ended, it returned the row with identifier u,
\* the store holds exactly one User with identifier u, and every other ended call
\* for u returned the same row.
C1_ResolveOrCreateIdempotent ==
  \A p \in Procs :
    UserCallEnded(p) =>
      /\ user[p] = req[p].user_id
      /\ Cardinality(select_user(req[p].user_id)) = 1
      /\ \A q \in Procs :
           (UserCallEnded(q) /\ req[q].user_id = req[p].user_id) => user[q] = user[p]

\* C2: when two chat-completions present the same unseen user identifier and both
\* have observed 'not found', the insert step of either continues the pipeline
\* with the single User row of that identifier instead of ending the request.
C2_ConcurrentInsertHandled ==
  [][\A p, q \in Procs :
       ( /\ p # q
         /\ req[p].kind = "chat" /\ req[q].kind = "chat"
         /\ req[p].user_id = req[q].user_id
         /\ pc[p] = "insert_user" /\ pc[q] = "insert_user"
         /\ pc'[p] # "insert_user" )
       => ( /\ pc'[p] # "done"
            /\ user'[p] = req[p].user_id
            /\ Cardinality({u \in users' : u.id = req[p].user_id}) = 1 )]_vars

\* C3: every Session references an existing User and every Message references an
\* existing Session, in every reachable state.
C3_ReferentialIntegrity ==
  /\ \A s \in sessions : \E u \in users : u.id = s.user_id
  /\ \A i \in 1..Len(messages) : \E s \in sessions : s.id = messages[i].session_id

\* C4: get_session_by_id(s, u2) finds nothing for every stored session s and every
\* user identifier u2 other than the owner of s.
C4_OwnershipIsolation ==
  \A s \in sessions : \A u2 \in UserIds \cup {u.id : u \in users} :
    u2 # s.user_id => get_session_by_id(s.id, u2) = NoSession

\* a session exists that its owner resolves and another user identifier does not
C4_Witness ==
  \E s \in sessions : \E u2 \in UserIds :
    /\ u2 # s.user_id
    /\ get_session_by_id(s.id, s.user_id) = s.id
    /\ get_session_by_id(s.id, u2) = NoSession
    /\ \E p \in Procs : session[p] = s.id /\ pc[p] = "done"

\* the case of C5: a successful chat-completion without session identifier whose last
\* message is user-authored, answered with a reply, whose session no other request resolved
C5_Case(p) ==
  /\ ChatSucceeded(p)
  /\ req[p].session_id = NoSession
  /\ LastIsUser(p)
  /\ Len(response_data[p].choices) > 0
  /\ \A q \in Procs \ {p} : session[q] # session[p]

\* C5: after such a call the new session holds exactly two Messages: the caller's
\* last message with role user, then the backend's first choice with role assistant.
C5_FreshSessionTwoMessages ==
  \A p \in Procs :
    C5_Case(p) =>
      LET ms == SelectSeq2(messages, session[p]) IN
        /\ Len(ms) = 2
        /\ ms[1].role = "user"
        /\ ms[1].content = req[p].messages[Len(req[p].messages)].content
        /\ ms[2].role = "assistant"
        /\ ms[2].content = response_data[p].choices[1]
        /\ ms[1].id < ms[2].id

C5_Witness ==
  \E p \in Procs : C5_Case(p) /\ Len(req[p].messages) = 2 /\ Len(SelectSeq2(messages, session[p])) = 2

\* the case of C6: a chat-completion whose message list does not end with a user message
C6_Case(p) == req[p].kind = "chat" /\ Admitted(p) /\ ~LastIsUser(p)

\* C6: such a call never persists an inbound (role user) Message; when it succeeds
\* with a reply and no delete request resolved its session, it has added exactly
\* one Message: the assistant reply, in its session.
C6_NoInboundButReply ==
  \A p \in Procs :
    C6_Case(p) =>
      /\ \A i \in 1..Len(messages) : ~(messages[i].call = p /\ messages[i].role = "user")
      /\ (ChatSucceeded(p) /\ Len(response_data[p].choices) > 0 /\ NoDeleteOf(p)) =>
           /\ Len(MessagesOf(p)) = 1
           /\ MessagesOf(p)[1].role = "assistant"
           /\ MessagesOf(p)[1].content = response_data[p].choices[1]
           /\ MessagesOf(p)[1].session_id = session[p]

C6_Witness ==
  \E p \in Procs :
    /\ C6_Case(p) /\ Len(req[p].messages) = 2
    /\ ChatSucceeded(p) /\ Len(response_data[p].choices) > 0 /\ NoDeleteOf(p)
    /\ Len(MessagesOf(p)) = 1

\* the backend answered the chat-completion of p with an error status
BackendFailed(p) ==
  /\ req[p].kind = "chat" /\ pc[p] = "done"
  /\ response_data[p].status \notin {NoBackend.status, 200}

\* C7: a chat-completion that ended in a backend failure has exactly one RequestLog
\* row, and the row's response_status is the backend's failure status.
C7_BackendFailureLogged ==
  \A p \in Procs :
    BackendFailed(p) =>
      /\ Cardinality(LogRowsOf(p)) = 1
      /\ \A i \in LogRowsOf(p) : request_logs[i].response_status = response_data[p].status

\* C8: a chat-completion that ended in a backend failure persisted no assistant
\* Message, did not touch its session, answers with the backend's status code, and
\* (no delete request having resolved its session) its inbound user Message, if the
\* request ended with one, is still in the store.
C8_BackendFailureEffects ==
  \A p \in Procs :
    BackendFailed(p) =>
      /\ \A i \in 1..Len(messages) : ~(messages[i].call = p /\ messages[i].role = "assistant")
      /\ ~touched[p]
      /\ resp[p].status = response_data[p].status
      /\ (LastIsUser(p) /\ NoDeleteOf(p)) =>
           /\ Len(MessagesOf(p)) = 1
           /\ MessagesOf(p)[1].role = "user"
           /\ MessagesOf(p)[1].content = req[p].messages[Len(req[p].messages)].content
           /\ MessagesOf(p)[1].session_id = session[p]

C8_Witness ==
  \E p \in Procs :
    /\ BackendFailed(p) /\ response_data[p].status = 503
    /\ LastIsUser(p) /\ NoDeleteOf(p) /\ Len(MessagesOf(p)) = 1

\* C9: every admitted chat-completion that has terminated has exactly one RequestLog
\* row, and the row records the status code the caller received.
C9_ExactlyOneLogRow ==
  \A p \in Procs :
    (req[p].kind = "chat" /\ Admitted(p) /\ pc[p] = "done") =>
      /\ Cardinality(LogRowsOf(p)) = 1
      /\ \A i \in LogRowsOf(p) : request_logs[i].response_status = resp[p].status

\* C10: whatever the outcome of the RequestLog write that ends a chat-completion,
\* the caller receives the successful response with the session and user
\* identifiers, and the persisted Messages remain.
C10_LogFailureSwallowed ==
  [][\A p \in Procs :
       (pc[p] = "log" /\ pc'[p] # "log") =>
         /\ resp'[p].status = 200
         /\ resp'[p].session_id = session[p]
         /\ resp'[p].user_id = user[p]
         /\ messages' = messages]_vars

\* the value of a parsed address as one number
AddressValue(o) == ((o[1] * 256 + o[2]) * 256 + o[3]) * 256 + o[4]

\* the caller address equals an allow-list entry or lies in the address range
\* lo..hi that a well-formed range entry addr/prefix configures
OriginListed(ip) ==
  \E i \in 1..Len(allowed_ips) :
    LET e == allowed_ips[i] IN
      IF ~e.slash THEN ip = e.addr
      ELSE /\ e.addr \in DOMAIN ParsedAddresses
           /\ e.prefix \in 2..32
           /\ LET size == 2 ^ (32 - e.prefix)
                  base == AddressValue(ParsedAddresses[e.addr])
                  lo == base - (base % size)
                  x == AddressValue(ParsedAddresses[ip])
              IN lo <= x /\ x <= lo + size - 1

\* C11: a request is admitted exactly when its credential equals the shared secret
\* and the allow-list is empty or lists its address; a disallowed origin is answered
\* 403 'IP not allowed', an allowed origin with a bad credential 401 'Invalid API key'.
C11_GuardDecision ==
  \A p \in Procs :
    pc[p] # "idle" =>
      LET origin == (allowed_ips = <<>>) \/ OriginListed(req[p].ip)
          secret == req[p].token = API_KEY
      IN /\ (pc[p] # "done") <=> (origin /\ secret)
         /\ ~origin => (resp[p].status = 403 /\ resp[p].detail = <<"IP not allowed">>)
         /\ (origin /\ ~secret) => (resp[p].status = 401 /\ resp[p].detail = <<"Invalid API key">>)

\* one request admitted through a range entry it is not the base address of, and
\* one request with the right credential refused for its origin
C11_Witness ==
  \E p, q \in Procs :
    /\ allowed_ips = <<CidrEntry("10.0.0.9", 24)>>
    /\ pc[p] = "get_user" /\ req[p].ip = "10.0.0.2"
    /\ pc[q] = "done" /\ req[q].ip = "10.0.1.7" /\ req[q].token = API_KEY
    /\ resp[q].status = 403

\* a chat request the guard has to refuse: wrong credential or unlisted origin
DeniedChat(p) ==
  /\ pc[p] # "idle"
  /\ req[p].kind = "chat"
  /\ \/ req[p].token # API_KEY
     \/ ~((allowed_ips = <<>>) \/ OriginListed(req[p].ip))

\* C12: a chat request the guard refuses ends with 401 or 403 and has no effect:
\* it resolves no user, creates no session, stores no message and no request-log
\* row, and makes no backend call.
C12_DeniedChatNoEffect ==
  \A p \in Procs :
    DeniedChat(p) =>
      /\ pc[p] = "done"
      /\ resp[p].status \in {401, 403}
      /\ user[p] = "" /\ session[p] = NoSession /\ obj[p] = NoObject
      /\ response_data[p] = NoBackend
      /\ ~touched[p]
      /\ \A i \in 1..Len(messages) : messages[i].call # p
      /\ \A i \in 1..Len(request_logs) : request_logs[i].call # p

\* a refused chat request next to a chat request that was served
C12_Witness ==
  \E p, q \in Procs :
    /\ DeniedChat(p) /\ resp[p].status = 401
    /\ req[q].kind = "chat" /\ pc[q] = "done" /\ resp[q].status = 200

\* C13: every guard check, admitting or refusing, appends exactly one audit fact.
C13_GuardEmitsOneFact ==
  [][\A p \in Procs :
       (pc[p] = "idle" /\ pc'[p] # "idle") => Len(audit'[p]) = Len(audit[p]) + 1]_vars

\* C14: the insert step of get_or_create_user for an identifier that has no row
\* stores one User with that identifier and returns it to the handler, which goes on.
C14_FirstReferenceSucceeds ==
  [][\A p \in Procs :
       ( /\ pc[p] = "insert_user" /\ pc'[p] # "insert_user"
         /\ select_user(req[p].user_id) = {} )
       => /\ pc'[p] # "done"
          /\ user'[p] = req[p].user_id
          /\ Cardinality({u \in users' : u.id = req[p].user_id}) = 1]_vars

\* the request ended without a fault of its environment: no failed commit, no
\* unreachable or failing backend, and no backend answer without a choice
NoEnvironmentFault(p) ==
  /\ resp[p].detail \notin { <<"vLLM error">>, <<"Internal error", "OperationalError">>,
                             <<"Internal error", "ConnectError">> }
  /\ response_data[p] = NoBackend \/ response_data[p].choices # <<>>

\* the only request so far, on the store init_database() leaves: an admitted chat
\* with an unseen user identifier, no session_id and a single user message
C15_Case(p) ==
  /\ \A q \in Procs \ {p} : pc[q] = "idle"
  /\ \A i \in 1..Len(messages) : messages[i].call = p
  /\ \A i \in 1..Len(request_logs) : request_logs[i].call = p
  /\ pc[p] = "done"
  /\ req[p].kind = "chat" /\ resp[p].status \notin {401, 403}
  /\ req[p].user_id = DEFAULT_REQUEST_USER_ID
  /\ req[p].session_id = NoSession
  /\ req[p].messages = <<[role |-> "user", content |-> "hi"]>>
  /\ NoEnvironmentFault(p)

\* C15: the first chat on an empty store, for an unseen user identifier u1 with no
\* session_id and one user message, leaves one User u1, one Session, two Messages
\* and one RequestLog with status 200, and answers with the new session's
\* identifier and u1.
C15_FirstChatInventory ==
  \A p \in Procs :
    C15_Case(p) =>
      /\ Cardinality(select_user(req[p].user_id)) = 1
      /\ Cardinality(sessions) = 1
      /\ Len(messages) = 2
      /\ Len(request_logs) = 1 /\ request_logs[1].response_status = 200
      /\ resp[p].status = 200
      /\ \E s \in sessions : s.id = resp[p].session_id
      /\ resp[p].user_id = req[p].user_id

\* C16: the step that completes a session-delete of the owner leaves neither the
\* Session nor any Message of that session in the store.
C16_DeleteRemovesSessionAndMessages ==
  [][\A p \in Procs :
       (pc[p] = "delete_commit" /\ pc'[p] = "done" /\ resp'[p].status = 200)
       => /\ \A s \in sessions' : s.id # session[p]
          /\ \A i \in 1..Len(messages') : messages'[i].session_id # session[p]]_vars

\* C17: a session-delete that ends without having resolved a session of its user
\* (the identifier is unknown or belongs to another user) answers 404 and leaves
\* Sessions and Messages as they were.
C17_DeleteOfForeignSessionNotFound ==
  [][\A p \in Procs :
       ( /\ req[p].kind = "delete"
         /\ pc[p] # "done" /\ pc'[p] = "done"
         /\ session'[p] = NoSession )
       => /\ resp'[p].status = 404
          /\ sessions' = sessions
          /\ messages' = messages]_vars

\* the endpoints that only read: list_sessions, get_session, get_session_messages
ReadKinds == {"list", "get", "messages"}

C19_CreateYieldsSession ==
  [][\A p \in Procs :
       ( /\ req[p].kind = "create"
         /\ pc[p] # "done" /\ pc'[p] = "done"
         /\ resp'[p].detail # <<ErrorDetail["create"], "OperationalError">> )
       => /\ resp'[p].status = 200
          /\ \E s \in sessions' :
               /\ s.id = session'[p]
               /\ s.user_id = req[p].user_id
               /\ s.model_name = req[p].model
               /\ req[p].title # NoTitle => s.title = req[p].title
               /\ resp'[p].body = <<SessionView(s.id)>>]_vars

\* the request ended in the handler's 'except Exception' clause
InternalFault(p) ==
  pc[p] = "done" /\ resp[p].status = 500 /\ Len(resp[p].detail) = 2

\* C20: two requests with the same input that both ended in an internal fault got
\* the same response, whatever the faults were.
C20_FaultDetailNotExposed ==
  \A p, q \in Procs :
    (InternalFault(p) /\ InternalFault(q) /\ req[p] = req[q]) => resp[p] = resp[q]

\* an admitted chat-completion that is past its user and session resolution, or
\* ended there for a reason other than a failed commit
ChatPastSession(p) ==
  /\ req[p].kind = "chat"
  /\ pc[p] \notin {"idle", "get_user", "insert_user", "get_session", "create_session"}
  /\ resp[p].status \notin {401, 403}
  /\ resp[p].detail # <<"Internal error", "OperationalError">>

\* C21: a chat-completion past its session resolution either works on the session
\* its identifier resolved, or on a new session it created; it created one exactly
\* when it carried no identifier or the identifier did not resolve under its user
\* (for instance because the session belongs to another user); the session it works
\* on is owned by its user and every message it wrote belongs to that session.
C21_SessionCreatedIffUnresolved ==
  \A p \in Procs :
    ChatPastSession(p) =>
      LET resolved == req[p].session_id # NoSession /\ session[p] = req[p].session_id
          created == session[p] \notin {NoSession, req[p].session_id}
      IN /\ created <=> ~resolved
         /\ \A s \in sessions : s.id = session[p] => s.user_id = req[p].user_id
         /\ \A i \in 1..Len(messages) :
              messages[i].call = p => messages[i].session_id = session[p]

\* two chat-completions that both succeeded on the same existing session, each
\* with a user-authored last message and an extracted reply
C22_Case(p, q) ==
  /\ p # q
  /\ ChatSucceeded(p) /\ ChatSucceeded(q)
  /\ req[p].session_id # NoSession /\ req[p].session_id = session[p]
  /\ req[q].session_id = req[p].session_id /\ session[q] = session[p]
  /\ LastIsUser(p) /\ LastIsUser(q)
  /\ response_data[p].choices # <<>> /\ response_data[q].choices # <<>>
  /\ NoDeleteOf(p)

\* C22: when two chat-completions succeed on the same existing session, the session
\* still exists and holds the user message and the assistant message of each, the
\* user message of a request before the assistant message of that request.
C22_NoLostAppend ==
  \A p, q \in Procs :
    C22_Case(p, q) =>
      /\ \E s \in sessions : s.id = session[p]
      /\ \A c \in {p, q} :
           /\ Len(MessagesOf(c)) = 2
           /\ MessagesOf(c)[1].role = "user" /\ MessagesOf(c)[2].role = "assistant"
           /\ MessagesOf(c)[1].content = LastMessage(c).content
           /\ MessagesOf(c)[2].content = response_data[c].choices[1]
           /\ \A i \in 1..2 : MessagesOf(c)[i].session_id = session[p]
      /\ Len(SelectSeq2(messages, session[p])) >= 4

\* the two requests overlapped: the user message of one was stored between the
\* user message and the assistant message of the other
C22_Witness ==
  \E p, q \in Procs :
    /\ C22_Case(p, q)
    /\ MessagesOf(p)[1].id < MessagesOf(q)[1].id
    /\ MessagesOf(q)[1].id < MessagesOf(p)[2].id

\* the positions of a chat-completion, in program order
ChatOrder ==
  <<"get_user", "insert_user", "get_session", "create_session", "refresh_session",
    "store_user", "refresh_user", "backend", "store_reply", "refresh_reply",
    "touch_select", "touch_commit", "log">>

\* the chat-completion of p has reached the position label, or ended with success
ChatReached(p, label) ==
  /\ req[p].kind = "chat"
  /\ \/ ChatSucceeded(p)
     \/ \E i, j \in 1..Len(ChatOrder) : ChatOrder[i] = label /\ ChatOrder[j] = pc[p] /\ i <= j

\* C23: a chat-completion goes through its steps in one order. The user is resolved
\* before the session; both before the inbound message is stored; the inbound
\* message is committed and the backend not yet called when the backend call is
\* issued; the reply is stored after the backend answered; the session is touched
\* (unless it is gone) before the RequestLog row is written; and the row exists
\* only once the response is returned.
C23_StepsInOrder ==
  \A p \in Procs :
    /\ ChatReached(p, "get_session") => user[p] = req[p].user_id
    /\ ChatReached(p, "store_user") => (user[p] = req[p].user_id /\ session[p] # NoSession)
    /\ (req[p].kind = "chat" /\ pc[p] = "backend") =>
         /\ response_data[p] = NoBackend
         /\ (StoresUserMessage(p) /\ NoDeleteOf(p)) =>
              /\ Len(MessagesOf(p)) = 1
              /\ MessagesOf(p)[1].role = "user"
    /\ ChatReached(p, "store_reply") => response_data[p].status = 200
    /\ (ChatReached(p, "touch_select") /\ NoDeleteOf(p)) =>
         /\ StoresUserMessage(p) => MessagesOf(p)[1].role = "user"
         /\ response_data[p].choices # <<>> =>
              MessagesOf(p)[Len(MessagesOf(p))].role = "assistant"
    /\ req[p].kind = "chat" /\ pc[p] \notin {"log", "done"} => ~touched[p]
    /\ ChatReached(p, "log") => (touched[p] \/ select_session(session[p]) = {})
    /\ LogRowsOf(p) # {} => ChatSucceeded(p)
    /\ (req[p].kind = "chat" /\ pc[p] # "done") => resp[p] = NoResponse

\* a chat-completion that went through every step and returned
C23_Witness ==
  \E p \in Procs :
    /\ ChatSucceeded(p) /\ touched[p]
    /\ Len(MessagesOf(p)) = 2 /\ Cardinality(LogRowsOf(p)) = 1
    /\ audit[p] = <<"START", "SUCCESS">>

\* a chat-completion that ended after the backend answered 200 without a choice,
\* and not in a failed commit or a touch of a session deleted under it
C24_Case(p) ==
  /\ req[p].kind = "chat" /\ pc[p] = "done"
  /\ response_data[p].status = 200 /\ response_data[p].choices = <<>>
  /\ resp[p].detail \notin { <<"Internal error", "OperationalError">>,
                             <<"Internal error", "StaleDataError">> }

\* C24: when the backend answers 200 and no reply can be extracted, the call stores
\* no assistant message, touches the session if it still exists, writes one
\* RequestLog row with status 200 and returns the backend body with the session and
\* user identifiers.
C24_NoReplyStillLogged ==
  \A p \in Procs :
    C24_Case(p) =>
      /\ \A i \in 1..Len(messages) : messages[i].call = p => messages[i].role # "assistant"
      /\ touched[p] \/ select_session(session[p]) = {}
      /\ Cardinality(LogRowsOf(p)) = 1
      /\ \A i \in LogRowsOf(p) :
           /\ request_logs[i].response_status = 200
           /\ request_logs[i].session_id = session[p]
           /\ request_logs[i].user_id = user[p]
      /\ resp[p] = [status |-> 200, detail |-> <<>>, body |-> response_data[p].choices,
                    session_id |-> session[p], user_id |-> user[p]]

\* such a call on a session that still exists, with its inbound message stored
C24_Witness ==
  \E p \in Procs :
    /\ C24_Case(p) /\ touched[p]
    /\ select_session(session[p]) # {}
    /\ Len(MessagesOf(p)) = 1 /\ MessagesOf(p)[1].role = "user"
    /\ resp[p].status = 200

\* a chat-completion that ended because its backend call raised: the call was
\* started and no backend answer was received
BackendUnreachable(p) ==
  /\ req[p].kind = "chat" /\ pc[p] = "done"
  /\ Len(audit[p]) > 0 /\ audit[p][1] = "START"
  /\ response_data[p] = NoBackend

\* C25: a chat-completion whose backend was unreachable is answered neither as an
\* internal fault of the gateway nor as a backend status failure, and it has one
\* RequestLog row.
C25_UnreachableIsDistinct ==
  \A p \in Procs :
    BackendUnreachable(p) =>
      /\ <<resp[p].status, resp[p].detail[1]>> # <<500, "Internal error">>
      /\ resp[p].detail[1] # "vLLM error"
      /\ Cardinality(LogRowsOf(p)) = 1

\* C26: in every step, each Message that is still stored is unchanged and in its
\* place relative to the others, a Message leaves the store only in the step that
\* deletes its session, and every RequestLog row stays as it is, in its place.
C26_AppendOnly ==
  [][ /\ \A i \in 1..Len(messages) :
           \/ \E j \in 1..Len(messages') : j <= i /\ messages'[j] = messages[i]
           \/ /\ \A j \in 1..Len(messages') : messages'[j].id # messages[i].id
              /\ \E p \in Procs :
                   /\ req[p].kind = "delete"
                   /\ pc[p] = "delete_commit" /\ pc'[p] = "done"
                   /\ messages[i].session_id = session[p]
                   /\ \A t \in sessions' : t.id # session[p]
      /\ Len(request_logs') >= Len(request_logs)
      /\ \A i \in 1..Len(request_logs) : request_logs'[i] = request_logs[i] ]_vars

\* a session was deleted with its messages while the RequestLog row that references
\* it is still stored, next to the messages of another session
C26_Witness ==
  \E p \in Procs :
    /\ req[p].kind = "delete" /\ pc[p] = "done" /\ resp[p].status = 200
    /\ \E i \in 1..Len(request_logs) : request_logs[i].session_id = session[p]
    /\ \A i \in 1..Len(messages) : messages[i].session_id # session[p]
    /\ Len(messages) = 2

\* C27: a step of update_session_timestamp taken when the session is no longer
\* stored changes no row, does not bring the session back and does not end the
\* request (a commit refused by the store set apart).
C27_TouchOfDeletedSessionIsNoOp ==
  [][\A p \in Procs :
       ( /\ pc[p] \in {"touch_select", "touch_commit"} /\ pc'[p] # pc[p]
         /\ select_session(session[p]) = {}
         /\ resp'[p].detail # <<"Internal error", "OperationalError">> )
       => /\ store' = store
          /\ pc'[p] # "done"]_vars

\* C28: no step lowers the updated_at of a session, and after every step each
\* session's updated_at is at or after its created_at, whatever the offset of the
\* host's local time.
C28_UpdatedAtMonotone ==
  [][\A s \in sessions, t \in sessions' :
       s.id = t.id => (t.updated_at >= s.updated_at /\ t.updated_at >= t.created_at)]_vars
====
